---- MODULE Spec2Model ----
(***************************************************************************)
(* csearch: the query front end of the code-search tool                    *)
(* (cmd/csearch/csearch.go).  One run of the process is modelled: flag     *)
(* parsing, the usage check, compilation of the content pattern and of     *)
(* the --allow-files / --block-files expressions, the posting query, the   *)
(* filename filter, the scan loop under the g.Limit budget, and the exit.  *)
(*                                                                         *)
(* The packages codesearch/index and codesearch/regexp are not part of     *)
(* the sources at hand; what the front end needs of them (Compile,         *)
(* MatchString, PostingQuery, Name, Grep.File, the Limit flag) is          *)
(* modelled from the specification's description of the collaborators.     *)
(***************************************************************************)
EXTENDS Integers, Sequences, FiniteSets, TLC

\* ------------------------------------------------------------------ bounds

\* Largest number of --allow-files plus --block-files flags on a command line.
MaxFilters == 2
\* Largest finite result budget given on the command line.
MaxLimit == 2
\* Largest number of matching lines the collaborator finds in one file.
MaxMatches == 2

\* ------------------------------------------------------- the world outside

\* The indexed files: file identifier i resolves to Names[i].  A name is a
\* sequence of tokens, so that matching works on the text of the name.
Names == << <<"a", ".go">>, <<"a", "_test", ".go">>, <<"b", ".txt">> >>

FileIds == 1..Len(Names)

\* ix.Name(fileid)
Name(fileid) == Names[fileid]

\* Raw regular expressions a user may type, token by token.  ".*" is the
\* wildcard, "(" is an unbalanced parenthesis, everything else a literal.
GoExpr == <<".*", ".go">>
TestExpr == <<".*", "_test", ".go">>
BadExpr == <<"(">>

FilterExprs == {GoExpr, TestExpr, BadExpr}

ContentArgs == {<<"foo">>, <<"(">>}

\* The sentinel budget that stands for "no limit".
Unlimited == -1

Budgets == {Unlimited} \cup 0..MaxLimit

Range(s) == {s[i] : i \in 1..Len(s)}

Min(a, b) == IF a < b THEN a ELSE b

\* All sequences over S of length at most n.
SeqsUpTo(S, n) == UNION {[1..k -> S] : k \in 0..n}

\* Orders in which the index may return a posting list: the sequences of
\* distinct file identifiers.
PostingLists ==
    {s \in SeqsUpTo(FileIds, Len(Names)) :
        \A i, j \in 1..Len(s) : i # j => s[i] # s[j]}

\* The match-all posting list: every indexed file, in identifier order.
AllFiles == [i \in FileIds |-> i]

\* regexp.Compile: an expression with an unbalanced parenthesis is an error,
\* any other compiles to a program (here: its token sequence).
Compile(raw) ==
    IF "(" \in Range(raw)
    THEN [err |-> TRUE, prog |-> <<>>]
    ELSE [err |-> FALSE, prog |-> raw]

\* Whether program e matches the whole of name s.
RECURSIVE FullMatch(_, _)
FullMatch(e, s) ==
    IF e = <<>> THEN s = <<>>
    ELSE IF Head(e) = ".*"
         THEN FullMatch(Tail(e), s) \/ (s # <<>> /\ FullMatch(e, Tail(s)))
         ELSE s # <<>> /\ Head(s) = Head(e) /\ FullMatch(Tail(e), Tail(s))

\* fre.MatchString(name, true, true): the end of the match, or -1.
MatchString(fre, name) == IF FullMatch(fre, name) THEN Len(name) ELSE -1

\* ------------------------------------------------------------------- state

VARIABLES
    pc,                 \* position of the process
    exitCode,           \* status the process exited with, -1 while running
    args,               \* flag.Args(): the positional arguments
    iFlag,              \* -i
    onlyListCandidates, \* --only-list-candidates
    bruteFlag,          \* --brute
    allowFiles,         \* --allow-files, accumulated
    blockFiles,         \* --block-files, accumulated
    re,                 \* compiled content pattern (g.Regexp)
    allowFres,          \* compiled allow expressions
    blockFres,          \* compiled block expressions
    ixOpen,             \* the index has been opened
    queries,            \* the queries executed against the index, in order
    rawPost,            \* the posting list as the index returned it
    post,               \* the candidate list the scan walks
    idx,                \* position of the scan loop in post
    Limit,              \* g.Limit, the result budget
    initLimit,          \* the budget the run started with
    Match,              \* g.Match
    stdout,             \* names written by the listing path
    fileCalls,          \* names handed to g.File, in order
    results             \* outcome of each g.File call: "err" or "ok"

vars == <<pc, exitCode, args, iFlag, onlyListCandidates, bruteFlag, allowFiles,
          blockFiles, re, allowFres, blockFres, ixOpen, queries, rawPost, post,
          idx, Limit, initLimit, Match, stdout, fileCalls, results>>

Init ==
    /\ pc = "parse"
    /\ exitCode = -1
    /\ args = <<>>
    /\ iFlag = FALSE
    /\ onlyListCandidates = FALSE
    /\ bruteFlag = FALSE
    /\ allowFiles = <<>>
    /\ blockFiles = <<>>
    /\ re = <<>>
    /\ allowFres = <<>>
    /\ blockFres = <<>>
    /\ ixOpen = FALSE
    /\ queries = <<>>
    /\ rawPost = <<>>
    /\ post = <<>>
    /\ idx = 1
    /\ Limit = 0
    /\ initLimit = 0
    /\ Match = FALSE
    /\ stdout = <<>>
    /\ fileCalls = <<>>
    /\ results = <<>>


\* ------------------------------------------------------- pieces of Main

\* The exit status of usage().
ExitUsage == 2
\* The exit status of log.Fatal.
ExitFatal == 1
\* The exit status main ends with once Main has returned.
ExitMain == 0

\* pat := "(?m)" + args[0], with "(?i)" in front under -i.
Pattern(arg, i) ==
    IF i THEN <<"(?i)", "(?m)">> \o arg ELSE <<"(?m)">> \o arg

\* A compile loop that would drop an expression that fails to compile and go
\* on with the rest.
RECURSIVE CompileAllSkipping(_)
CompileAllSkipping(raws) ==
    IF raws = <<>> THEN [err |-> FALSE, fres |-> <<>>]
    ELSE LET c == Compile(Head(raws))
             rest == CompileAllSkipping(Tail(raws))
         IN  IF c.err THEN rest
             ELSE [err |-> FALSE, fres |-> <<c.prog>> \o rest.fres]

\* The compile loops over allowFiles and over blockFiles: the expressions are
\* compiled in order, and the first one that fails is fatal.
RECURSIVE CompileAll(_)
CompileAll(raws) ==
    IF raws = <<>> THEN [err |-> FALSE, fres |-> <<>>]
    ELSE LET c == Compile(Head(raws))
         IN  IF c.err THEN [err |-> TRUE, fres |-> <<>>]
             ELSE LET rest == CompileAll(Tail(raws))
                  IN  [err |-> rest.err,
                       fres |-> IF rest.err THEN <<>> ELSE <<c.prog>> \o rest.fres]

\* A query selection that would send the pattern's query whatever --brute says.
QueryToRunIgnoringBrute(brute) == "RegexpQuery"

\* Which query goes to ix.PostingQuery: match-all under --brute, else the
\* query derived from the content pattern.
QueryToRun(brute) == IF brute THEN "QAll" ELSE "RegexpQuery"

\* An allow loop that would be satisfied by one matching expression.
RECURSIVE AllowPassAny(_, _)
AllowPassAny(fres, name) ==
    IF fres = <<>> THEN TRUE
    ELSE IF MatchString(Head(fres), name) >= 0 THEN TRUE
         ELSE Tail(fres) # <<>> /\ AllowPassAny(Tail(fres), name)

\* The loop over allowFres: every expression must match the name; the first
\* that does not ends the loop with matches = false.
RECURSIVE AllowPass(_, _)
AllowPass(fres, name) ==
    IF fres = <<>> THEN TRUE
    ELSE IF MatchString(Head(fres), name) < 0 THEN FALSE
         ELSE AllowPass(Tail(fres), name)

\* A block loop that would reject a name only when every expression matches.
RECURSIVE BlockHitAll(_, _)
BlockHitAll(fres, name) ==
    IF fres = <<>> THEN FALSE
    ELSE IF MatchString(Head(fres), name) < 0 THEN FALSE
         ELSE Tail(fres) = <<>> \/ BlockHitAll(Tail(fres), name)

\* The loop over blockFres: one expression that matches rejects the name.
RECURSIVE BlockHit(_, _)
BlockHit(fres, name) ==
    IF fres = <<>> THEN FALSE
    ELSE IF MatchString(Head(fres), name) >= 0 THEN TRUE
         ELSE BlockHit(Tail(fres), name)

\* The body of the filter loop for one file: matches, as it stands when the
\* append is reached.
Accepted(fileid, allow, block) ==
    /\ AllowPass(allow, Name(fileid))
    /\ ~BlockHit(block, Name(fileid))

\* A filter loop that would collect the accepted identifiers at the front.
RECURSIVE FilterPostPrepending(_, _, _)
FilterPostPrepending(p, allow, block) ==
    IF p = <<>> THEN <<>>
    ELSE LET rest == FilterPostPrepending(Tail(p), allow, block)
         IN  IF Accepted(Head(p), allow, block) THEN rest \o <<Head(p)>> ELSE rest

\* The filter loop: fnames collects the accepted identifiers by append.
RECURSIVE FilterPost(_, _, _)
FilterPost(p, allow, block) ==
    IF p = <<>> THEN <<>>
    ELSE LET rest == FilterPost(Tail(p), allow, block)
         IN  IF Accepted(Head(p), allow, block) THEN <<Head(p)>> \o rest ELSE rest

\* A listing path that would charge the budget two for one name.
ListDecrementTwice(limit) == limit - 2

\* g.Limit-- on the listing path.
ListDecrement(limit) == limit - 1

\* A budget test that would also stop on a negative budget.
BudgetExhaustedOrNegative(limit) == limit <= 0

\* if g.Limit == 0 { break }
BudgetExhausted(limit) == limit = 0

\* g.File(name) finding m matching lines: the collaborator emits them one by
\* one, counts the budget down with each, and stops when it reaches zero.
GrepEmits(limit, m) == IF limit > 0 THEN Min(m, limit) ELSE m


\* ----------------------------------------------------------------- actions

\* The process ends with the given status.
Exit(code) ==
    /\ pc' = "exited"
    /\ exitCode' = code

\* g is built with a zero Limit; g.AddFlags, flag.Var and flag.Parse then set
\* the flags and the positional arguments from the command line.
ParseFlags ==
    /\ pc = "parse"
    /\ \E a \in SeqsUpTo(ContentArgs, 2),
          al \in SeqsUpTo(FilterExprs, MaxFilters),
          bl \in SeqsUpTo(FilterExprs, MaxFilters),
          i \in BOOLEAN, only \in BOOLEAN, brute \in BOOLEAN,
          lim \in Budgets :
            /\ Len(al) + Len(bl) <= MaxFilters
            /\ args' = a
            /\ allowFiles' = al
            /\ blockFiles' = bl
            /\ iFlag' = i
            /\ onlyListCandidates' = only
            /\ bruteFlag' = brute
            /\ Limit' = lim
            /\ initLimit' = lim
    /\ pc' = "args"
    /\ UNCHANGED <<exitCode, re, allowFres, blockFres, ixOpen, queries, rawPost,
                   post, idx, Match, stdout, fileCalls, results>>

\* if len(args) != 1 { usage() }
CheckArgs ==
    /\ pc = "args"
    /\ IF Len(args) # 1
       THEN Exit(ExitUsage)
       ELSE pc' = "profile" /\ UNCHANGED exitCode
    /\ UNCHANGED <<args, iFlag, onlyListCandidates, bruteFlag, allowFiles,
                   blockFiles, re, allowFres, blockFres, ixOpen, queries,
                   rawPost, post, idx, Limit, initLimit, Match, stdout,
                   fileCalls, results>>

\* The CPU profile: not asked for, started, or its file cannot be created.
StartProfile ==
    /\ pc = "profile"
    /\ \E outcome \in {"off", "on", "fail"} :
          IF outcome = "fail"
          THEN Exit(ExitFatal)
          ELSE pc' = "pattern" /\ UNCHANGED exitCode
    /\ UNCHANGED <<args, iFlag, onlyListCandidates, bruteFlag, allowFiles,
                   blockFiles, re, allowFres, blockFres, ixOpen, queries,
                   rawPost, post, idx, Limit, initLimit, Match, stdout,
                   fileCalls, results>>

\* re, err := regexp.Compile(pat); g.Regexp = re
CompilePattern ==
    /\ pc = "pattern"
    /\ LET c == Compile(Pattern(args[1], iFlag))
       IN  IF c.err
           THEN Exit(ExitFatal) /\ UNCHANGED re
           ELSE pc' = "allow" /\ re' = c.prog /\ UNCHANGED exitCode
    /\ UNCHANGED <<args, iFlag, onlyListCandidates, bruteFlag, allowFiles,
                   blockFiles, allowFres, blockFres, ixOpen, queries, rawPost,
                   post, idx, Limit, initLimit, Match, stdout, fileCalls,
                   results>>

\* The loop that compiles allowFiles into allowFres.
CompileAllow ==
    /\ pc = "allow"
    /\ LET c == CompileAll(allowFiles)
       IN  IF c.err
           THEN Exit(ExitFatal) /\ UNCHANGED allowFres
           ELSE pc' = "block" /\ allowFres' = c.fres /\ UNCHANGED exitCode
    /\ UNCHANGED <<args, iFlag, onlyListCandidates, bruteFlag, allowFiles,
                   blockFiles, re, blockFres, ixOpen, queries, rawPost, post,
                   idx, Limit, initLimit, Match, stdout, fileCalls, results>>

\* The loop that compiles blockFiles into blockFres.
CompileBlock ==
    /\ pc = "block"
    /\ LET c == CompileAll(blockFiles)
       IN  IF c.err
           THEN Exit(ExitFatal) /\ UNCHANGED blockFres
           ELSE pc' = "open" /\ blockFres' = c.fres /\ UNCHANGED exitCode
    /\ UNCHANGED <<args, iFlag, onlyListCandidates, bruteFlag, allowFiles,
                   blockFiles, re, allowFres, ixOpen, queries, rawPost, post,
                   idx, Limit, initLimit, Match, stdout, fileCalls, results>>

\* q := index.RegexpQuery(re.Syntax); ix := index.Open(index.File()).  An
\* index that cannot be opened is fatal.
OpenIndex ==
    /\ pc = "open"
    /\ \E ok \in BOOLEAN :
          IF ok
          THEN pc' = "query" /\ ixOpen' = TRUE /\ UNCHANGED exitCode
          ELSE Exit(ExitFatal) /\ UNCHANGED ixOpen
    /\ UNCHANGED <<args, iFlag, onlyListCandidates, bruteFlag, allowFiles,
                   blockFiles, re, allowFres, blockFres, queries, rawPost, post,
                   idx, Limit, initLimit, Match, stdout, fileCalls, results>>

\* post = ix.PostingQuery(...): the match-all list under --brute, else
\* whatever list the index holds for the pattern's query.
PostingQuery ==
    /\ pc = "query"
    /\ LET q == QueryToRun(bruteFlag)
       IN  /\ queries' = Append(queries, q)
           /\ \E p \in PostingLists :
                 /\ q = "QAll" => p = AllFiles
                 /\ rawPost' = p
                 /\ post' = p
    /\ pc' = "filter"
    /\ UNCHANGED <<exitCode, args, iFlag, onlyListCandidates, bruteFlag,
                   allowFiles, blockFiles, re, allowFres, blockFres, ixOpen,
                   idx, Limit, initLimit, Match, stdout, fileCalls, results>>

\* if len(allowFres) > 0 || len(blockFres) > 0 { ...; post = fnames }
FilterNames ==
    /\ pc = "filter"
    /\ post' = IF Len(allowFres) > 0 \/ Len(blockFres) > 0
               THEN FilterPost(post, allowFres, blockFres)
               ELSE post
    /\ pc' = "scan"
    /\ UNCHANGED <<exitCode, args, iFlag, onlyListCandidates, bruteFlag,
                   allowFiles, blockFiles, re, allowFres, blockFres, ixOpen,
                   queries, rawPost, idx, Limit, initLimit, Match, stdout,
                   fileCalls, results>>

\* Where the scan loop goes after the body of one iteration.
AfterCandidate(limit) ==
    /\ pc' = IF BudgetExhausted(limit) THEN "return" ELSE "scan"
    /\ idx' = idx + 1

\* One iteration on the listing path: print the name, count the budget down.
ScanList ==
    /\ pc = "scan"
    /\ idx <= Len(post)
    /\ onlyListCandidates
    /\ stdout' = Append(stdout, Name(post[idx]))
    /\ Limit' = ListDecrement(Limit)
    /\ AfterCandidate(Limit')
    /\ UNCHANGED <<exitCode, args, iFlag, onlyListCandidates, bruteFlag,
                   allowFiles, blockFiles, re, allowFres, blockFres, ixOpen,
                   queries, rawPost, post, initLimit, Match, fileCalls,
                   results>>

\* A content path that would leave the loop when g.File cannot read the file.
ScanFileErrorAborting ==
    /\ pc = "scan"
    /\ idx <= Len(post)
    /\ ~onlyListCandidates
    /\ fileCalls' = Append(fileCalls, Name(post[idx]))
    /\ results' = Append(results, "err")
    /\ pc' = "return"
    /\ idx' = idx + 1
    /\ UNCHANGED <<exitCode, args, iFlag, onlyListCandidates, bruteFlag,
                   allowFiles, blockFiles, re, allowFres, blockFres, ixOpen,
                   queries, rawPost, post, Limit, initLimit, Match, stdout>>

\* One iteration on the content path whose g.File call cannot read the file:
\* the collaborator reports it and returns, and the loop goes on.
ScanFileError ==
    /\ pc = "scan"
    /\ idx <= Len(post)
    /\ ~onlyListCandidates
    /\ fileCalls' = Append(fileCalls, Name(post[idx]))
    /\ results' = Append(results, "err")
    /\ AfterCandidate(Limit)
    /\ UNCHANGED <<exitCode, args, iFlag, onlyListCandidates, bruteFlag,
                   allowFiles, blockFiles, re, allowFres, blockFres, ixOpen,
                   queries, rawPost, post, Limit, initLimit, Match, stdout>>

\* One iteration on the content path whose g.File call reads the file and
\* finds m matching lines in it.
ScanFile ==
    /\ pc = "scan"
    /\ idx <= Len(post)
    /\ ~onlyListCandidates
    /\ fileCalls' = Append(fileCalls, Name(post[idx]))
    /\ results' = Append(results, "ok")
    /\ \E m \in 0..MaxMatches :
          LET e == GrepEmits(Limit, m)
          IN  /\ Limit' = Limit - e
              /\ Match' = (Match \/ e > 0)
    /\ AfterCandidate(Limit')
    /\ UNCHANGED <<exitCode, args, iFlag, onlyListCandidates, bruteFlag,
                   allowFiles, blockFiles, re, allowFres, blockFres, ixOpen,
                   queries, rawPost, post, initLimit, stdout>>

\* The range loop has run out of candidates.
ScanEnd ==
    /\ pc = "scan"
    /\ idx > Len(post)
    /\ pc' = "return"
    /\ UNCHANGED <<exitCode, args, iFlag, onlyListCandidates, bruteFlag,
                   allowFiles, blockFiles, re, allowFres, blockFres, ixOpen,
                   queries, rawPost, post, idx, Limit, initLimit, Match, stdout,
                   fileCalls, results>>

\* func main() { Main(); os.Exit(0) }
MainExit ==
    /\ pc = "return"
    /\ Exit(ExitMain)
    /\ UNCHANGED <<args, iFlag, onlyListCandidates, bruteFlag, allowFiles,
                   blockFiles, re, allowFres, blockFres, ixOpen, queries,
                   rawPost, post, idx, Limit, initLimit, Match, stdout,
                   fileCalls, results>>

Next ==
    \/ ParseFlags
    \/ CheckArgs
    \/ StartProfile
    \/ CompilePattern
    \/ CompileAllow
    \/ CompileBlock
    \/ OpenIndex
    \/ PostingQuery
    \/ FilterNames
    \/ ScanList
    \/ ScanFileError
    \/ ScanFile
    \/ ScanEnd
    \/ MainExit

Spec == Init /\ [][Next]_vars


\* ------------------------------------------------------ vocabulary of the
\* ------------------------------------------------------ properties

\* The search ran to its end: Main returned (and main may have exited).
Completed == pc = "return" \/ (pc = "exited" /\ queries # <<>>)

\* The filename filter has been applied: post is the filtered candidate set.
Filtered == pc = "scan" \/ Completed

\* The candidates processed so far, by name, in the order of processing.
Visited == IF onlyListCandidates THEN stdout ELSE fileCalls

\* The raw expression expr, once compiled, matches name.
Matches(expr, name) == MatchString(Compile(expr).prog, name) >= 0

PassesAllow(name) ==
    \A k \in 1..Len(allowFiles) : Matches(allowFiles[k], name)

HitsBlock(name) ==
    \E k \in 1..Len(blockFiles) : Matches(blockFiles[k], name)

\* Position of x in the sequence s of distinct elements (0 when absent).
PosIn(s, x) == IF \E i \in 1..Len(s) : s[i] = x
               THEN CHOOSE i \in 1..Len(s) : s[i] = x
               ELSE 0

\* Some step of the setup is bound to fail on this command line.
SetupFails ==
    \/ Len(args) # 1
    \/ Compile(Pattern(args[1], iFlag)).err
    \/ \E k \in 1..Len(allowFiles) : Compile(allowFiles[k]).err
    \/ \E k \in 1..Len(blockFiles) : Compile(blockFiles[k]).err

\* ------------------------------------------------------------- properties

\* C1: a completed search exits with status 0 if at least one match was
\* produced during the run and with status 1 if none was (an empty filtered
\* candidate set included).
C1_ExitDisposition ==
    (pc = "exited" /\ queries # <<>>) =>
        exitCode = (IF Match \/ stdout # <<>> THEN 0 ELSE 1)

\* C2: from the parsed command line on, the budget never increases, and in a
\* state where the budget is zero no step emits a name or calls the content
\* matcher, whatever budget the run started with and in both modes.
C2_BudgetMonotone ==
    [][pc # "parse" =>
         /\ Limit' <= Limit
         /\ Limit = 0 => (stdout' = stdout /\ fileCalls' = fileCalls)]_vars

\* C3: in listing mode with a budget N > 0 and K filtered candidates, the
\* names emitted are a prefix of the filtered set, each emission costs the
\* budget exactly one, and a completed run has emitted exactly min(N, K)
\* names, so never candidate N+1.
C3_ListBudget ==
    (onlyListCandidates /\ initLimit > 0) =>
        /\ Limit = initLimit - Len(stdout)
        /\ Len(stdout) <= Len(post)
        /\ \A i \in 1..Len(stdout) : stdout[i] = Name(post[i])
        /\ Completed => Len(stdout) = Min(initLimit, Len(post))

C3_Witness ==
    /\ Completed
    /\ onlyListCandidates
    /\ initLimit = 2
    /\ Len(post) = 3
    /\ stdout = <<Name(post[1]), Name(post[2])>>
    /\ Limit = 0

\* C4: with a non-empty allow sequence, every candidate of the filtered set
\* has a name that matches every allow expression, and a raw candidate whose
\* name fails one allow expression is not in the filtered set, whatever the
\* block expressions are.
C4_AllowAnd ==
    (Filtered /\ allowFiles # <<>>) =>
        /\ \A i \in 1..Len(post) : PassesAllow(Name(post[i]))
        /\ \A j \in 1..Len(rawPost) :
              ~PassesAllow(Name(rawPost[j])) => rawPost[j] \notin Range(post)

C4_Witness ==
    /\ Filtered
    /\ allowFiles = <<GoExpr, TestExpr>>
    /\ rawPost = <<1, 2, 3>>
    /\ post = <<2>>

\* C5: a raw candidate whose name passes every allow expression (or when
\* there is none) is left out of the filtered set if and only if its name
\* matches at least one block expression.
C5_BlockOr ==
    Filtered =>
        \A j \in 1..Len(rawPost) :
            PassesAllow(Name(rawPost[j])) =>
                (rawPost[j] \notin Range(post) <=> HitsBlock(Name(rawPost[j])))

C5_Witness ==
    /\ Filtered
    /\ allowFiles = <<GoExpr>>
    /\ blockFiles = <<TestExpr>>
    /\ rawPost = <<1, 2, 3>>
    /\ post = <<1>>

\* C6: the filtered set is a subsequence of the raw posting list (nothing
\* added, duplicated or reordered), and the scan visits the filtered
\* candidates in exactly that order.
C6_StableFilter ==
    /\ Filtered =>
          /\ \A i \in 1..Len(post) : PosIn(rawPost, post[i]) > 0
          /\ \A i, j \in 1..Len(post) :
                i < j => PosIn(rawPost, post[i]) < PosIn(rawPost, post[j])
    /\ Len(Visited) <= Len(post)
    /\ \A i \in 1..Len(Visited) : Visited[i] = Name(post[i])

C6_Witness ==
    /\ Completed
    /\ rawPost = <<2, 3, 1>>
    /\ post = <<2, 1>>
    /\ Len(Visited) = 2

\* C7: when the argument count is not one, or the content pattern or any
\* allow or block expression does not compile, the run never gets as far as
\* opening or querying the index, filtering or processing a candidate, and
\* the process can only end with a non-zero status (2 for the usage error).
C7_SetupFatal ==
    (pc # "parse" /\ SetupFails) =>
        /\ pc \in {"args", "profile", "pattern", "allow", "block", "exited"}
        /\ ~ixOpen
        /\ queries = <<>>
        /\ rawPost = <<>> /\ post = <<>>
        /\ stdout = <<>> /\ fileCalls = <<>>
        /\ pc = "exited" => exitCode # 0
        /\ (pc = "exited" /\ Len(args) # 1) => exitCode = 2

C7_Witness ==
    /\ pc = "exited"
    /\ exitCode = 1
    /\ Len(args) = 1
    /\ allowFiles = <<GoExpr>>
    /\ blockFiles = <<BadExpr>>
    /\ allowFres = <<GoExpr>>

\* C8: in content mode a completed run has handed every filtered candidate
\* to the matcher unless the budget is zero, however many of the calls
\* failed; a failed call is the last one only on the last candidate or with
\* the budget at zero.
C8_FailureDoesNotAbort ==
    (~onlyListCandidates /\ Completed) =>
        /\ Len(fileCalls) = Len(post) \/ Limit = 0
        /\ \A i \in 1..Len(results) :
              (results[i] = "err" /\ i < Len(post) /\ Limit # 0)
                  => Len(fileCalls) > i

C8_Witness ==
    /\ Completed
    /\ ~onlyListCandidates
    /\ Len(post) = 3
    /\ results = <<"err", "err", "ok">>
    /\ Len(fileCalls) = 3
    /\ Match

\* C9: under --brute the only query executed is the match-all query and the
\* raw candidate set is every indexed file, whatever the content pattern;
\* the filename filters still decide the filtered set.
C9_BruteMatchAll ==
    bruteFlag =>
        /\ "RegexpQuery" \notin Range(queries)
        /\ Filtered =>
              /\ queries = <<"QAll">>
              /\ Range(rawPost) = FileIds
              /\ \A f \in FileIds :
                    f \in Range(post) <=>
                        (PassesAllow(Name(f)) /\ ~HitsBlock(Name(f)))

C9_Witness ==
    /\ Filtered
    /\ bruteFlag
    /\ queries = <<"QAll">>
    /\ blockFiles = <<TestExpr>>
    /\ post = <<1, 3>>

\* C10: a run that starts with the unlimited budget never sees the budget at
\* zero and, once completed, has processed every filtered candidate; in
\* listing mode each emitted name still counts the budget down by one.
C10_UnlimitedNeverStops ==
    (pc # "parse" /\ initLimit = Unlimited) =>
        /\ Limit # 0
        /\ Completed => Len(Visited) = Len(post)
        /\ onlyListCandidates => Limit = Unlimited - Len(stdout)

C10_Witness ==
    /\ Completed
    /\ initLimit = Unlimited
    /\ onlyListCandidates
    /\ Len(post) = 3
    /\ Len(stdout) = 3
    /\ Limit = Unlimited - 3

====
